---- MODULE Spec2Model ----
(***************************************************************************)
(* A model of sudachen/logger: the severity router (package logger,        *)
(* src/logger.go 1-434) with its global lock, default logger, fan-out      *)
(* writers and closer registry, and the remote delivery tracker (package   *)
(* internal, src/logger.go 436-496, and its earlier revision, package      *)
(* remote, src/unnamed/part_000, which has a flag and a counter of its     *)
(* own).                                                                   *)
(*                                                                         *)
(* Callers are goroutines of the host program.  Each handler is cut into   *)
(* steps at the points where the code takes or releases logLock, reads the *)
(* global defaultLogger, or calls into a writer or a closer.               *)
(***************************************************************************)
EXTENDS Integers, Sequences, FiniteSets

(* ---- bounds of the model ---------------------------------------------- *)
NumCallers == 2
MaxOps == 3
MaxCounterOps == 4
MaxLoggers == 2

Callers == 1..NumCallers
LoggerIds == 0..MaxLoggers

(* ---- program constants ------------------------------------------------ *)
sInfo == 0
sWarning == 1
sError == 2
sFatal == 3
Severities == {sInfo, sWarning, sError, sFatal}

tagInfo == "INFO : "
tagWarning == "WARN : "
tagError == "ERROR: "
tagFatal == "FATAL: "

\* log.Ldate | log.Lmicroseconds | log.Lshortfile
flags == 21
initText == "ERROR: Logging before logger.Init.\n"

\* line 403: flashTimeout = 3 * time.Second, in seconds
flashTimeout == 3

\* the sentry levels bound to the four remote sinks
sentryFatalLog == [level |-> "fatal"]
sentryErrorLog == [level |-> "error"]
sentryWarnLog == [level |-> "warning"]
sentryInfoLog == [level |-> "info"]

(* ---- writers ---------------------------------------------------------- *)
\* A writer is named by a string.  "nil" is the nil io.Writer, "buf" an
\* io.Writer that has no Close (a bytes.Buffer), "file" an *os.File, which
\* is an io.Closer and rejects Write and Close once it has been closed.
NilWriter == "nil"
LogFiles == {NilWriter, "buf", "file"}
LocalWriters == {"stdout", "stderr", "buf", "file"}
SentryWriters == {"sentryInfoLog", "sentryWarnLog", "sentryErrorLog", "sentryFatalLog"}

IsCloser(w) == w = "file"

SnioOf(w) ==
  CASE w = "sentryInfoLog" -> sentryInfoLog
    [] w = "sentryWarnLog" -> sentryWarnLog
    [] w = "sentryErrorLog" -> sentryErrorLog
    [] w = "sentryFatalLog" -> sentryFatalLog

VARIABLES
  logLock,        \* 0 when free, else the caller holding the mutex
  defaultLogger,  \* id of the process-wide default logger, 0 is the fallback
  loggers,        \* the Logger values built by Init, by id
  hubClient,      \* sentry.CurrentHub().Client() != nil
  connected,      \* internal.connected
  wg,             \* counter of the internal WaitGroup
  wgWaiters,      \* waiters registered in the internal WaitGroup
  deliveries,     \* delivery goroutines that have not finished
  fileClosed,     \* the *os.File "file" has been closed
  out,            \* what each local writer has received
  sentryEvents,   \* messages captured by the sentry SDK, each with the holder of
                  \* logLock at the time of the capture
  flushes,        \* number of sentry.Flush calls made
  exit,           \* <<>> while the process runs, <<status>> after os.Exit
  pc,             \* position of each caller
  fr,             \* locals of each caller's current call
  ret,            \* the loggers Init calls have returned, in the order of return
  nops,           \* calls started so far
  lockOrder,      \* record ids in the order output acquired logLock
  closeInvoked,   \* per logger, closer.Close() calls made by Logger.Close
  closeDone,      \* per logger, Logger.Close calls that have returned
  waitSaw,        \* numbers of unfinished deliveries seen when a Wait returned
  remoteWrites,   \* what the remote sinks' Write calls have returned
  connectLog,     \* what the ConnectSentry calls found and returned
  fallback,       \* the Logger initialize() installed, with the flags set since
  setFlagsLog,    \* the last SetFlags call that has returned, if any
  opsLimit,       \* calls the host program makes at most
  remoteConnected, \* connected of package remote (src/unnamed/part_000)
  remoteWg,       \* counter of the WaitGroup of package remote
  wgSema          \* releases in the semaphore of the internal WaitGroup not yet taken

vars == <<logLock, defaultLogger, loggers, hubClient, connected, wg, wgWaiters, deliveries,
          fileClosed, out, sentryEvents, flushes, exit, pc, fr, ret, nops,
          lockOrder, closeInvoked, closeDone, waitSaw, remoteWrites,
          connectLog,
          fallback,
          setFlagsLog,
          opsLimit,
          remoteConnected,
          remoteWg,
          wgSema>>

remoteVars == <<connected, wg, wgWaiters, deliveries, waitSaw>>
sinkVars == <<out, sentryEvents, flushes, fileClosed>>
ghostCloseVars == <<closeInvoked, closeDone>>

(* ---- log.Logger and Logger values ------------------------------------- *)
\* log.New(out, prefix, flag); out is the list io.MultiWriter fans out to
LogNew(w, prefix, flag) == [out |-> w, prefix |-> prefix, flag |-> flag]

TagOf(level) ==
  CASE level = sInfo -> tagInfo
    [] level = sWarning -> tagWarning
    [] level = sError -> tagError
    [] level = sFatal -> tagFatal

ConsoleOf(level) ==
  IF level \in {sInfo, sWarning} THEN "stdout" ELSE "stderr"

makeLog_remoteFirst(level, verbose, logFile, w) ==
  LET a0 == IF logFile # NilWriter THEN <<logFile>> ELSE <<>>
      a1 == IF verbose THEN Append(a0, ConsoleOf(level)) ELSE a0
  IN LogNew(w \o a1, TagOf(level), flags)

makeLog(level, verbose, logFile, w) ==
  LET a0 == IF logFile # NilWriter THEN <<logFile>> ELSE <<>>
      a1 == IF verbose THEN Append(a0, ConsoleOf(level)) ELSE a0
  IN LogNew(a1 \o w, TagOf(level), flags)

\* the Logger initialize() installs as defaultLogger
initialize_noWarning ==
  [infoLog |-> LogNew(<<"stderr">>, tagInfo, flags),
   warningLog |-> LogNew(<<"stderr">>, tagWarning, flags),
   errorLog |-> LogNew(<<"stderr">>, tagError, flags),
   fatalLog |-> LogNew(<<"stderr">>, tagFatal, flags),
   closers |-> <<>>,
   initialized |-> FALSE]

initialize ==
  [infoLog |-> LogNew(<<"stderr">>, initText \o tagInfo, flags),
   warningLog |-> LogNew(<<"stderr">>, initText \o tagWarning, flags),
   errorLog |-> LogNew(<<"stderr">>, initText \o tagError, flags),
   fatalLog |-> LogNew(<<"stderr">>, initText \o tagFatal, flags),
   closers |-> <<>>,
   initialized |-> FALSE]

\* the Logger value Init builds before it takes the lock; args is not a field
\* of the struct, it keeps the arguments the value was built from
InitBuild_anyLogFile(verbose, logFile) ==
  [infoLog |-> makeLog(sInfo, verbose, logFile, <<"sentryInfoLog">>),
   warningLog |-> makeLog(sWarning, verbose, logFile, <<"sentryWarnLog">>),
   errorLog |-> makeLog(sError, verbose, logFile, <<"sentryErrorLog">>),
   fatalLog |-> makeLog(sFatal, verbose, logFile, <<"sentryFatalLog">>),
   closers |-> <<"sentryFatalLog">> \o
               (IF logFile # NilWriter THEN <<logFile>> ELSE <<>>),
   initialized |-> TRUE,
   args |-> [verbose |-> verbose, logFile |-> logFile]]

InitBuild(verbose, logFile) ==
  [infoLog |-> makeLog(sInfo, verbose, logFile, <<"sentryInfoLog">>),
   warningLog |-> makeLog(sWarning, verbose, logFile, <<"sentryWarnLog">>),
   errorLog |-> makeLog(sError, verbose, logFile, <<"sentryErrorLog">>),
   fatalLog |-> makeLog(sFatal, verbose, logFile, <<"sentryFatalLog">>),
   closers |-> <<"sentryFatalLog">> \o
               (IF logFile # NilWriter /\ IsCloser(logFile) THEN <<logFile>> ELSE <<>>),
   initialized |-> TRUE,
   args |-> [verbose |-> verbose, logFile |-> logFile]]

LoggerAt(l) == IF l = 0 THEN fallback ELSE loggers[l]

\* the log.Logger output selects for a severity
LogOf(l, s) ==
  CASE s = sInfo -> LoggerAt(l).infoLog
    [] s = sWarning -> LoggerAt(l).warningLog
    [] s = sError -> LoggerAt(l).errorLog
    [] s = sFatal -> LoggerAt(l).fatalLog

(* ---- message texts ---------------------------------------------------- *)
\* the text of a call whose arguments do not matter
AnyText == "msg"

\* a format string is a list of literal pieces and verbs
Verb == "%v"
Formats == {<<"done">>, <<"n=", Verb>>}
ArgLists == {<<>>, <<"7">>}

\* the format string as written
RECURSIVE FormatString(_)
FormatString(a) == IF a = <<>> THEN "" ELSE Head(a) \o FormatString(Tail(a))

\* fmt.Sprintf(a, b...): each verb takes the next argument, a verb without one
\* prints %!v(MISSING), arguments left over are listed after %!(EXTRA
RECURSIVE Sprintf(_, _)
Sprintf(a, b) ==
  IF a = <<>>
  THEN IF b = <<>> THEN "" ELSE "%!(EXTRA string=" \o Head(b) \o ")"
  ELSE IF Head(a) = Verb
       THEN IF b = <<>> THEN "%!v(MISSING)" \o Sprintf(Tail(a), b)
                        ELSE Head(b) \o Sprintf(Tail(a), Tail(b))
       ELSE Head(a) \o Sprintf(Tail(a), b)

(* ---- callers ---------------------------------------------------------- *)
Frame0 ==
  [l |-> 0, s |-> sInfo, i |-> 0, viaDefault |-> FALSE, fatal |-> FALSE,
   rec |-> 0, afterClose |-> FALSE, wrote |-> 0, attempts |-> <<>>, diags |-> 0,
   flushed |-> <<>>, hdr |-> 0, f |-> 0, clean |-> TRUE,
   text |-> "", remote |-> <<>>, raw |-> FALSE]

Running == exit = <<>>

\* a Logger a caller can hold: one that Init has returned
Returned(l) == \E k \in 1..Len(ret) : ret[k] = l

\* the receiver of a call: the package-level functions read defaultLogger
Receiver(viaDefault, l) == IF viaDefault THEN defaultLogger ELSE l

Targets == {<<TRUE, 0>>} \cup {<<FALSE, l>> : l \in {k \in 1..Len(loggers) : Returned(k)}}

\* the line log.Logger.Output hands to its writer: the header is formatted
\* once, from the prefix and the flags read at the start of Output
Record(id, lg, hdr, text) ==
  [kind |-> "rec", id |-> id, prefix |-> lg.prefix, flag |-> hdr, text |-> text]

\* the diagnostic Close prints when a closer fails
Diagnostic ==
  [kind |-> "diag", id |-> 0, prefix |-> "Failed to close log ", flag |-> 0, text |-> ""]

InitCalls(limit) ==
  /\ logLock = 0
  /\ defaultLogger = 0
  /\ loggers = <<>>
  /\ hubClient = FALSE
  /\ connected = FALSE
  /\ wg = 0
  /\ wgWaiters = 0
  /\ deliveries = {}
  /\ fileClosed = FALSE
  /\ out = [w \in LocalWriters |-> <<>>]
  /\ sentryEvents = <<>>
  /\ flushes = 0
  /\ exit = <<>>
  /\ pc = [c \in Callers |-> "idle"]
  /\ fr = [c \in Callers |-> Frame0]
  /\ ret = <<>>
  /\ nops = 0
  /\ lockOrder = <<>>
  /\ closeInvoked = [l \in LoggerIds |-> 0]
  /\ closeDone = [l \in LoggerIds |-> 0]
  /\ waitSaw = {}
  /\ remoteWrites = {}
  /\ connectLog = {}
  /\ fallback = initialize
  /\ setFlagsLog = <<>>
  /\ opsLimit = limit
  /\ remoteConnected = FALSE
  /\ remoteWg = 0
  /\ wgSema = 0

Init == InitCalls(MaxOps)

\* sync.Mutex: Lock blocks until the mutex is free
LockFree_never(lock) == TRUE

LockFree(lock) == lock = 0

(* ---- Init ------------------------------------------------------------- *)
\* lines 79-122: build the Logger; nothing shared is touched yet
CallInit(c, verbose, logFile) ==
  /\ Running /\ pc[c] = "idle" /\ nops < opsLimit /\ Len(loggers) < MaxLoggers
  /\ loggers' = Append(loggers, InitBuild(verbose, logFile))
  /\ fr' = [fr EXCEPT ![c] = [Frame0 EXCEPT !.l = Len(loggers) + 1]]
  /\ pc' = [pc EXCEPT ![c] = "init_lock"]
  /\ nops' = nops + 1
  /\ UNCHANGED <<logLock, defaultLogger, hubClient, remoteVars, sinkVars, exit, ret,
                 lockOrder, ghostCloseVars, remoteWrites, connectLog, fallback,
                 setFlagsLog, opsLimit, remoteConnected, remoteWg, wgSema>>

\* line 124: logLock.Lock()
InitLock(c) ==
  /\ Running /\ pc[c] = "init_lock"
  /\ LockFree(logLock)
  /\ logLock' = c
  /\ pc' = [pc EXCEPT ![c] = "init_set"]
  /\ UNCHANGED <<defaultLogger, loggers, hubClient, remoteVars, sinkVars, exit, fr, ret,
                 nops, lockOrder, ghostCloseVars, remoteWrites, connectLog, fallback,
                 setFlagsLog, opsLimit, remoteConnected, remoteWg, wgSema>>

\* lines 126-128: the check-and-set of defaultLogger
InitCheckSet_always(def, l) == l

InitCheckSet(def, l) == IF ~LoggerAt(def).initialized THEN l ELSE def

\* lines 125-130: check-and-set, deferred Unlock, return &l
InitSet(c) ==
  /\ Running /\ pc[c] = "init_set"
  /\ defaultLogger' = InitCheckSet(defaultLogger, fr[c].l)
  /\ logLock' = 0
  /\ ret' = Append(ret, fr[c].l)
  /\ pc' = [pc EXCEPT ![c] = "idle"]
  /\ fr' = [fr EXCEPT ![c] = Frame0]
  /\ UNCHANGED <<loggers, hubClient, remoteVars, sinkVars, exit, nops, lockOrder,
                 ghostCloseVars, remoteWrites, connectLog, fallback, setFlagsLog, opsLimit,
                 remoteConnected, remoteWg, wgSema>>

(* ---- output ----------------------------------------------------------- *)
\* the locals of a call l.output(s, depth, text); remote is the text the
\* caller hands to internal.Info afterwards, if it does
OutputFrame(r, viaDefault, s, text, remote) ==
  [Frame0 EXCEPT !.l = r, !.s = s, !.viaDefault = viaDefault, !.fatal = (s = sFatal),
                 !.rec = nops + 1, !.text = text, !.remote = remote,
                 !.afterClose = (LoggerAt(r).initialized /\ closeDone[r] > 0)]

\* an entry point calls l.output(s, depth, txt); the Fatal entry points are
\* the ones that pass sFatal, and go on to Close and os.Exit
CallOutput(c, viaDefault, l, s) ==
  /\ Running /\ pc[c] = "idle" /\ nops < opsLimit
  /\ fr' = [fr EXCEPT ![c] = OutputFrame(Receiver(viaDefault, l), viaDefault, s, AnyText, <<>>)]
  /\ pc' = [pc EXCEPT ![c] = "out_lock"]
  /\ nops' = nops + 1
  /\ UNCHANGED <<logLock, defaultLogger, loggers, hubClient, remoteVars, sinkVars, exit,
                 ret, lockOrder, ghostCloseVars, remoteWrites, connectLog, fallback,
                 setFlagsLog, opsLimit, remoteConnected, remoteWg, wgSema>>

\* lines 152-163: the switch has a case for each of the four severities
SeverityKnown(s) == s \in Severities

\* lines 150-163: logLock.Lock(), then the switch on s
OutputLock(c) ==
  /\ Running /\ pc[c] = "out_lock"
  /\ LockFree(logLock)
  /\ logLock' = c
  /\ lockOrder' = Append(lockOrder, fr[c].rec)
  /\ fr' = [fr EXCEPT ![c].i = 1,
                      ![c].hdr = IF SeverityKnown(fr[c].s)
                                 THEN LogOf(fr[c].l, fr[c].s).flag ELSE 0]
  /\ pc' = [pc EXCEPT ![c] = IF SeverityKnown(fr[c].s) THEN "out_write" ELSE "out_panic"]
  /\ UNCHANGED <<defaultLogger, loggers, hubClient, remoteVars, sinkVars, exit, ret, nops,
                 ghostCloseVars, remoteWrites, connectLog, fallback, setFlagsLog, opsLimit,
                 remoteConnected, remoteWg, wgSema>>

\* Write of a local writer: an *os.File fails once closed; p is one record
LocalWrite(w, closed) == IF w = "file" /\ closed THEN <<0, "err">> ELSE <<1, "nil">>

\* lines 425-428: snio.Write delivers only when the hub has a client
SnioDelivers_always(client) == TRUE

SnioDelivers(client) == client

\* lines 419-421: sentryOutput flushes after the capture at LevelFatal only
SentryOutputFlushes_always(level) == TRUE

SentryOutputFlushes(level) == level = "fatal"

\* line 428: return 0, nil
SnioWriteReturn == <<0, "nil">>

\* io.MultiWriter stops at the first writer that fails or writes short
MultiWriterNext(r, i, n) ==
  IF r[2] = "nil" /\ r[1] = 1 /\ i < n THEN "out_write" ELSE "out_unlock"

\* lines 152-160: one Write of the fan-out of l.<s>Log.Output, under the lock
OutputWrite(c) ==
  /\ Running /\ pc[c] = "out_write"
  /\ LET lg == LogOf(fr[c].l, fr[c].s)
         w == lg.out[fr[c].i]
         n == Len(lg.out)
     IN
     IF w \in LocalWriters
     THEN LET r == LocalWrite(w, fileClosed) IN
          /\ out' = IF r[2] = "nil"
                    THEN [out EXCEPT ![w] = Append(@, Record(fr[c].rec, lg, fr[c].hdr, fr[c].text))]
                    ELSE out
          /\ pc' = [pc EXCEPT ![c] = MultiWriterNext(r, fr[c].i, n)]
          /\ fr' = [fr EXCEPT ![c].i = @ + 1]
          /\ UNCHANGED <<sentryEvents, remoteWrites>>
     ELSE \* snio.Write: sentryOutput when a client is bound, then return 0, nil
          /\ sentryEvents' = IF SnioDelivers(hubClient)
                             THEN Append(sentryEvents,
                                    [level |-> SnioOf(w).level, id |-> fr[c].rec, by |-> "sink",
                                     holder |-> logLock, text |-> fr[c].text])
                             ELSE sentryEvents
          /\ pc' = [pc EXCEPT ![c] =
                      IF SnioDelivers(hubClient) /\ SentryOutputFlushes(SnioOf(w).level)
                      THEN "out_flush"
                      ELSE MultiWriterNext(SnioWriteReturn, fr[c].i, n)]
          /\ fr' = [fr EXCEPT ![c].i = @ + 1]
          /\ remoteWrites' = remoteWrites \cup
                 {[pkg |-> "logger", client |-> hubClient, r |-> SnioWriteReturn]}
          /\ UNCHANGED out
  /\ UNCHANGED <<logLock, defaultLogger, loggers, hubClient, remoteVars, flushes,
                 fileClosed, exit, ret, nops, lockOrder, ghostCloseVars, connectLog,
                 fallback, setFlagsLog, opsLimit, remoteConnected, remoteWg, wgSema>>

\* lines 419-421: sentry.Flush(flashTimeout) of a fatal message, then return 0, nil
OutputFlush(c) ==
  /\ Running /\ pc[c] = "out_flush"
  /\ flushes' = flushes + 1
  /\ fr' = [fr EXCEPT ![c].flushed = Append(@, flashTimeout)]
  /\ pc' = [pc EXCEPT ![c] = "out_unlock"]
  /\ UNCHANGED <<logLock, defaultLogger, loggers, hubClient, remoteVars, out, sentryEvents,
                 fileClosed, exit, ret, nops, lockOrder, ghostCloseVars, remoteWrites,
                 connectLog, fallback, setFlagsLog, opsLimit, remoteConnected, remoteWg,
                 wgSema>>

\* line 151: defer logLock.Unlock() runs when output returns or panics
DeferredUnlock_skipped(lock) == lock

DeferredUnlock(lock) == 0

\* line 151: the deferred Unlock; a Fatal entry point goes on to Close
OutputUnlock_keptByFatal(c) ==
  /\ Running /\ pc[c] = "out_unlock"
  /\ logLock' = IF fr[c].fatal THEN logLock ELSE 0
  /\ pc' = [pc EXCEPT ![c] = IF fr[c].fatal THEN "fatal_close"
                              ELSE IF fr[c].remote # <<>> THEN "rinfo_info"
                              ELSE "idle"]
  /\ fr' = [fr EXCEPT ![c] = IF fr[c].fatal \/ fr[c].remote # <<>> THEN @ ELSE Frame0]
  /\ UNCHANGED <<defaultLogger, loggers, hubClient, remoteVars, sinkVars, exit, ret, nops,
                 lockOrder, ghostCloseVars, remoteWrites, connectLog, fallback,
                 setFlagsLog, opsLimit, remoteConnected, remoteWg, wgSema>>

OutputUnlock(c) ==
  /\ Running /\ pc[c] = "out_unlock"
  /\ logLock' = DeferredUnlock(logLock)
  /\ pc' = [pc EXCEPT ![c] = IF fr[c].fatal THEN "fatal_close"
                              ELSE IF fr[c].remote # <<>> THEN "rinfo_info"
                              ELSE "idle"]
  /\ fr' = [fr EXCEPT ![c] = IF fr[c].fatal \/ fr[c].remote # <<>> THEN @ ELSE Frame0]
  /\ UNCHANGED <<defaultLogger, loggers, hubClient, remoteVars, sinkVars, exit, ret, nops,
                 lockOrder, ghostCloseVars, remoteWrites, connectLog, fallback,
                 setFlagsLog, opsLimit, remoteConnected, remoteWg, wgSema>>

(* ---- output with a severity that has no case --------------------------- *)
\* values of the int type severity other than the four constants
BadSeverities == {-1, 4}

\* a call of the unexported l.output(s, depth, txt) from inside the package
CallOutputRaw(c, viaDefault, l, s) ==
  /\ Running /\ pc[c] = "idle" /\ nops < opsLimit
  /\ fr' = [fr EXCEPT ![c] =
              [OutputFrame(Receiver(viaDefault, l), viaDefault, s, AnyText, <<>>)
                 EXCEPT !.raw = TRUE]]
  /\ pc' = [pc EXCEPT ![c] = "out_lock"]
  /\ nops' = nops + 1
  /\ UNCHANGED <<logLock, defaultLogger, loggers, hubClient, remoteVars, sinkVars, exit,
                 ret, lockOrder, ghostCloseVars, remoteWrites, connectLog, fallback,
                 setFlagsLog, opsLimit, remoteConnected, remoteWg, wgSema>>

\* lines 161-162: panic in the default case; the deferred Unlock runs while
\* the panic unwinds output
OutputPanic(c) ==
  /\ Running /\ pc[c] = "out_panic"
  /\ logLock' = DeferredUnlock(logLock)
  /\ pc' = [pc EXCEPT ![c] = "panicked"]
  /\ UNCHANGED <<defaultLogger, loggers, hubClient, remoteVars, sinkVars, exit, fr, ret,
                 nops, lockOrder, ghostCloseVars, remoteWrites, connectLog, fallback,
                 setFlagsLog, opsLimit, remoteConnected, remoteWg, wgSema>>

(* ---- Close ------------------------------------------------------------ *)
\* Close() of the package or l.Close() of an instance
CallClose(c, viaDefault, l) ==
  /\ Running /\ pc[c] = "idle" /\ nops < opsLimit
  /\ fr' = [fr EXCEPT ![c] = [Frame0 EXCEPT !.l = Receiver(viaDefault, l),
                                !.viaDefault = viaDefault]]
  /\ pc' = [pc EXCEPT ![c] = "close_lock"]
  /\ nops' = nops + 1
  /\ UNCHANGED <<logLock, defaultLogger, loggers, hubClient, remoteVars, sinkVars, exit,
                 ret, lockOrder, ghostCloseVars, remoteWrites, connectLog, fallback,
                 setFlagsLog, opsLimit, remoteConnected, remoteWg, wgSema>>

\* lines 173-175: Close returns at once on a Logger that is not initialized
CloseEnters(lg) == lg.initialized

\* lines 170-175: Lock, then the initialized check
CloseLock(c) ==
  /\ Running /\ pc[c] = "close_lock"
  /\ LockFree(logLock)
  /\ logLock' = c
  /\ pc' = [pc EXCEPT ![c] = IF CloseEnters(LoggerAt(fr[c].l)) THEN "close_loop"
                                                               ELSE "close_unlock"]
  /\ fr' = [fr EXCEPT ![c].i = 1, ![c].attempts = <<>>, ![c].diags = 0]
  /\ UNCHANGED <<defaultLogger, loggers, hubClient, remoteVars, sinkVars, exit, ret, nops,
                 lockOrder, ghostCloseVars, remoteWrites, connectLog, fallback,
                 setFlagsLog, opsLimit, remoteConnected, remoteWg, wgSema>>

\* c.Close() of a closer: snio.Close (lines 431-434) flushes and returns nil;
\* (*os.File).Close fails on a file that is already closed
CloserClose(cl, closed) == IF cl = "file" /\ closed THEN "err" ELSE "nil"

\* line 177: the range loop goes on to the next closer whatever Close returned
CloseLoopNext_stop(err, i, n) ==
  IF err # "nil" THEN "close_abort" ELSE IF i < n THEN "close_loop" ELSE "close_unlock"

CloseLoopNext(err, i, n) == IF i < n THEN "close_loop" ELSE "close_unlock"

\* lines 178-180: a failure is printed to os.Stderr
ClosePrints_never(err) == FALSE

ClosePrints(err) == err # "nil"

\* lines 177-181: one iteration of the loop over l.closers, under the lock
CloseEntry(c) ==
  /\ Running /\ pc[c] = "close_loop"
  /\ LET cs == LoggerAt(fr[c].l).closers
         cl == cs[fr[c].i]
         err == CloserClose(cl, fileClosed)
     IN
     /\ flushes' = IF cl \in SentryWriters THEN flushes + 1 ELSE flushes
     /\ fileClosed' = IF cl = "file" THEN TRUE ELSE fileClosed
     /\ out' = IF ClosePrints(err)
               THEN [out EXCEPT !["stderr"] = Append(@, Diagnostic)]
               ELSE out
     /\ fr' = [fr EXCEPT ![c].i = @ + 1,
                         ![c].attempts = Append(@, <<cl, err>>),
                         ![c].diags = IF ClosePrints(err) THEN @ + 1 ELSE @]
     /\ pc' = [pc EXCEPT ![c] = CloseLoopNext(err, fr[c].i, Len(cs))]
     /\ closeInvoked' = [closeInvoked EXCEPT ![fr[c].l] = @ + 1]
  /\ UNCHANGED <<logLock, defaultLogger, loggers, hubClient, remoteVars, sentryEvents,
                 exit, ret, nops, lockOrder, closeDone, remoteWrites, connectLog, fallback,
                 setFlagsLog, opsLimit, remoteConnected, remoteWg, wgSema>>

\* line 171: the deferred Unlock; Close returns
CloseUnlock(c) ==
  /\ Running /\ pc[c] = "close_unlock"
  /\ logLock' = 0
  /\ closeDone' = [closeDone EXCEPT ![fr[c].l] = @ + 1]
  /\ pc' = [pc EXCEPT ![c] = IF fr[c].fatal THEN "fatal_exit" ELSE "idle"]
  /\ fr' = [fr EXCEPT ![c] = IF fr[c].fatal THEN @ ELSE Frame0]
  /\ UNCHANGED <<defaultLogger, loggers, hubClient, remoteVars, sinkVars, exit, ret, nops,
                 lockOrder, closeInvoked, remoteWrites, connectLog, fallback, setFlagsLog,
                 opsLimit, remoteConnected, remoteWg, wgSema>>

(* ---- Fatal ------------------------------------------------------------ *)
\* lines 260, 373: l.Close() after output; the package functions read
\* defaultLogger again for this call
FatalClose(c) ==
  /\ Running /\ pc[c] = "fatal_close"
  /\ fr' = [fr EXCEPT ![c].wrote = fr[c].l,
                      ![c].l = Receiver(fr[c].viaDefault, fr[c].l)]
  /\ pc' = [pc EXCEPT ![c] = "close_lock"]
  /\ UNCHANGED <<logLock, defaultLogger, loggers, hubClient, remoteVars, sinkVars, exit,
                 ret, nops, lockOrder, ghostCloseVars, remoteWrites, connectLog, fallback,
                 setFlagsLog, opsLimit, remoteConnected, remoteWg, wgSema>>

\* lines 261, 374: os.Exit(1)
FatalExit(c) ==
  /\ Running /\ pc[c] = "fatal_exit"
  /\ exit' = <<1>>
  /\ pc' = [pc EXCEPT ![c] = "exited"]
  /\ UNCHANGED <<logLock, defaultLogger, loggers, hubClient, remoteVars, sinkVars, fr, ret,
                 nops, lockOrder, ghostCloseVars, remoteWrites, connectLog, fallback,
                 setFlagsLog, opsLimit, remoteConnected, remoteWg, wgSema>>

(* ---- SetFlags --------------------------------------------------------- *)
\* the flag values a host passes: none, and log.LstdFlags
FlagInputs == {0, 3}

\* log.Logger.SetFlags on the log of one severity
SetLogFlags(lgr, s, flag) ==
  CASE s = sInfo -> [lgr EXCEPT !.infoLog.flag = flag]
    [] s = sWarning -> [lgr EXCEPT !.warningLog.flag = flag]
    [] s = sError -> [lgr EXCEPT !.errorLog.flag = flag]
    [] s = sFatal -> [lgr EXCEPT !.fatalLog.flag = flag]

\* lines 290-293: the logs SetFlags reaches, in order; the statements for
\* errorLog and fatalLog are commented out
SetFlagsTargets == <<sInfo, sWarning>>

\* line 289: SetFlags(flag) is called; clean is lost when two calls overlap
CallSetFlags(c, flag) ==
  /\ Running /\ pc[c] = "idle" /\ nops < opsLimit
  /\ LET overlap == \E d \in Callers : pc[d] = "setflags" IN
     fr' = [d \in Callers |->
              IF d = c THEN [Frame0 EXCEPT !.f = flag, !.i = 1, !.viaDefault = TRUE,
                                           !.clean = ~overlap]
              ELSE IF pc[d] = "setflags" THEN [fr[d] EXCEPT !.clean = FALSE]
              ELSE fr[d]]
  /\ pc' = [pc EXCEPT ![c] = "setflags"]
  /\ nops' = nops + 1
  /\ UNCHANGED <<logLock, defaultLogger, loggers, hubClient, remoteVars, sinkVars, exit,
                 ret, lockOrder, ghostCloseVars, remoteWrites, connectLog, fallback,
                 setFlagsLog, opsLimit, remoteConnected, remoteWg, wgSema>>

\* lines 290-291: defaultLogger.<s>Log.SetFlags(flag), defaultLogger read anew
\* by each statement and without the lock
SetFlagsStep(c) ==
  /\ Running /\ pc[c] = "setflags"
  /\ LET l == Receiver(TRUE, 0)
         v == SetLogFlags(LoggerAt(l), SetFlagsTargets[fr[c].i], fr[c].f)
         clean == fr[c].clean /\ (fr[c].i = 1 \/ fr[c].l = l)
     IN
     /\ IF l = 0
        THEN fallback' = v /\ UNCHANGED loggers
        ELSE loggers' = [loggers EXCEPT ![l] = v] /\ UNCHANGED fallback
     /\ IF fr[c].i < Len(SetFlagsTargets)
        THEN /\ fr' = [fr EXCEPT ![c].i = @ + 1, ![c].l = l, ![c].clean = clean]
             /\ UNCHANGED <<pc, setFlagsLog>>
        ELSE /\ fr' = [fr EXCEPT ![c] = Frame0]
             /\ pc' = [pc EXCEPT ![c] = "idle"]
             /\ setFlagsLog' = <<[f |-> fr[c].f, l |-> l, clean |-> clean]>>
  /\ UNCHANGED <<logLock, defaultLogger, hubClient, remoteVars, sinkVars, exit, ret, nops,
                 lockOrder, ghostCloseVars, remoteWrites, connectLog, opsLimit,
                 remoteConnected, remoteWg, wgSema>>

(* ---- ConnectSentry ---------------------------------------------------- *)
\* sentry.Init rejects a malformed DSN and binds a client otherwise
Dsns == {"good", "bad"}
SentryInit(dsn) == IF dsn = "good" THEN "nil" ELSE "err"

\* lines 452-457: connected is set on success and left alone on failure
ConnectedAfter_reset(conn, err) == err = "nil"

ConnectedAfter(conn, err) == IF err = "nil" THEN TRUE ELSE conn

\* internal.ConnectSentry, lines 451-454:
\* sentry.Init binds the client of the hub, or fails and the error is returned
ConnectSentry(c, dsn) ==
  /\ Running /\ pc[c] = "idle" /\ nops < opsLimit
  /\ nops' = nops + 1
  /\ IF SentryInit(dsn) = "nil"
     THEN /\ hubClient' = TRUE
          /\ pc' = [pc EXCEPT ![c] = "connect_set"]
          /\ fr' = [fr EXCEPT ![c] = [Frame0 EXCEPT !.text = dsn]]
          /\ UNCHANGED <<connected, connectLog>>
     ELSE /\ connected' = ConnectedAfter(connected, SentryInit(dsn))
          /\ connectLog' = connectLog \cup
                {[pkg |-> "internal", dsn |-> dsn, err |-> SentryInit(dsn),
                  was |-> connected,
                  now |-> ConnectedAfter(connected, SentryInit(dsn))]}
          /\ UNCHANGED <<hubClient, pc, fr>>
  /\ UNCHANGED <<logLock, defaultLogger, loggers, wg, wgWaiters, deliveries, waitSaw,
                 sinkVars, exit, ret, lockOrder, ghostCloseVars, remoteWrites, fallback,
                 setFlagsLog, opsLimit, remoteConnected, remoteWg, wgSema>>

\* lines 455-456: connected = true, a plain store made after
\* sentry.Init has returned; return nil
ConnectSet(c) ==
  /\ Running /\ pc[c] = "connect_set"
  /\ connected' = ConnectedAfter(connected, "nil")
  /\ connectLog' = connectLog \cup
        {[pkg |-> "internal", dsn |-> fr[c].text, err |-> "nil", was |-> connected,
          now |-> ConnectedAfter(connected, "nil")]}
  /\ pc' = [pc EXCEPT ![c] = "idle"]
  /\ fr' = [fr EXCEPT ![c] = Frame0]
  /\ UNCHANGED <<logLock, defaultLogger, loggers, hubClient, wg, wgWaiters, deliveries,
                 waitSaw, sinkVars, exit, ret, nops, lockOrder, ghostCloseVars,
                 remoteWrites, fallback, setFlagsLog, opsLimit, remoteConnected, remoteWg,
                 wgSema>>

\* ConnectSentry of package remote, part_000 13-15: sentry.Init binds the
\* client of the same hub, or fails and the error is returned
PackageRemoteConnectSentry(c, dsn) ==
  /\ Running /\ pc[c] = "idle" /\ nops < opsLimit
  /\ nops' = nops + 1
  /\ IF SentryInit(dsn) = "nil"
     THEN /\ hubClient' = TRUE
          /\ pc' = [pc EXCEPT ![c] = "remote_connect_set"]
          /\ fr' = [fr EXCEPT ![c] = [Frame0 EXCEPT !.text = dsn]]
          /\ UNCHANGED <<remoteConnected, connectLog>>
     ELSE /\ remoteConnected' = ConnectedAfter(remoteConnected, SentryInit(dsn))
          /\ connectLog' = connectLog \cup
                {[pkg |-> "remote", dsn |-> dsn, err |-> SentryInit(dsn),
                  was |-> remoteConnected,
                  now |-> ConnectedAfter(remoteConnected, SentryInit(dsn))]}
          /\ UNCHANGED <<hubClient, pc, fr>>
  /\ UNCHANGED <<logLock, defaultLogger, loggers, connected, wg, wgWaiters, deliveries,
                 waitSaw, sinkVars, exit, ret, lockOrder, ghostCloseVars, remoteWrites,
                 fallback, setFlagsLog, opsLimit, remoteWg, wgSema>>

\* part_000 16-18: connected = true of package remote; return nil
PackageRemoteConnectSet(c) ==
  /\ Running /\ pc[c] = "remote_connect_set"
  /\ remoteConnected' = ConnectedAfter(remoteConnected, "nil")
  /\ connectLog' = connectLog \cup
        {[pkg |-> "remote", dsn |-> fr[c].text, err |-> "nil", was |-> remoteConnected,
          now |-> ConnectedAfter(remoteConnected, "nil")]}
  /\ pc' = [pc EXCEPT ![c] = "idle"]
  /\ fr' = [fr EXCEPT ![c] = Frame0]
  /\ UNCHANGED <<logLock, defaultLogger, loggers, hubClient, connected, wg, wgWaiters,
                 deliveries, waitSaw, sinkVars, exit, ret, nops, lockOrder,
                 ghostCloseVars, remoteWrites, fallback, setFlagsLog, opsLimit, remoteWg,
                 wgSema>>

(* ---- the remote delivery tracker -------------------------------------- *)
\* The exported sinks (ErrorLog, WarnLog) of package internal and of package
\* remote
RemoteLevels == {"error", "warning"}

\* lines 465, 480 (part_000 27): a delivery is started only when connected
WriteStarts_always(conn) == TRUE

WriteStarts(conn) == conn

\* the goroutine started by lines 467-474 (part_000 29-39), which counts on
\* the WaitGroup of its package and flushes in package internal only; seen is
\* the state of the WaitGroup its wg.Done() left, when it has waiters to
\* release
Delivery(id, pkg, level, text) ==
  [id |-> id, pkg |-> pkg, level |-> level, flush |-> (pkg = "internal"),
   stage |-> "spawned", outcome |-> "none", text |-> text, seen |-> <<>>]

\* deliveries of a package whose goroutine has not yet decremented the counter
UnfinishedOf(pkg) ==
  {d \in deliveries : d.pkg = pkg /\ d.stage \in {"spawned", "captured", "flushed"}}

Unfinished == UnfinishedOf("internal")

\* lines 466, 481: wg.Add(1) on the WaitGroup all callers share.  Add panics
\* after its increment ("WaitGroup misuse: Add called concurrently with Wait")
\* when it finds waiters registered and the counter, before it, at zero
AddMisuse(counter, waiters) == waiters # 0 /\ counter = 0

\* internal.snio.Write, lines 464-477
RemoteWrite(c, level) ==
  /\ Running /\ pc[c] = "idle" /\ nops < opsLimit
  /\ nops' = nops + 1
  /\ IF WriteStarts(connected)
     THEN /\ wg' = wg + 1
          /\ IF AddMisuse(wg, wgWaiters)
             THEN /\ pc' = [pc EXCEPT ![c] = "add_panicked"]
                  /\ UNCHANGED <<deliveries, remoteWrites>>
             ELSE /\ deliveries' = deliveries \cup
                        {Delivery(nops + 1, "internal", level, AnyText)}
                  /\ remoteWrites' = remoteWrites \cup
                        {[pkg |-> "internal", client |-> connected, r |-> <<0, "nil">>]}
                  /\ UNCHANGED pc
     ELSE /\ remoteWrites' = remoteWrites \cup
                {[pkg |-> "internal", client |-> connected, r |-> <<0, "nil">>]}
          /\ UNCHANGED <<wg, deliveries, pc>>
  /\ UNCHANGED <<logLock, defaultLogger, loggers, hubClient, connected, wgWaiters, waitSaw,
                 sinkVars, exit, fr, ret, lockOrder, ghostCloseVars, connectLog, fallback,
                 setFlagsLog, opsLimit, remoteConnected, remoteWg, wgSema>>

\* snio.Write of package remote, part_000 26-42: nothing waits on the
\* WaitGroup of that package, so its wg.Add(1) always returns
PackageRemoteWrite(c, level) ==
  /\ Running /\ pc[c] = "idle" /\ nops < opsLimit
  /\ nops' = nops + 1
  /\ IF WriteStarts(remoteConnected)
     THEN /\ remoteWg' = remoteWg + 1
          /\ deliveries' = deliveries \cup {Delivery(nops + 1, "remote", level, AnyText)}
     ELSE UNCHANGED <<remoteWg, deliveries>>
  /\ remoteWrites' = remoteWrites \cup
        {[pkg |-> "remote", client |-> remoteConnected, r |-> <<0, "nil">>]}
  /\ UNCHANGED <<logLock, defaultLogger, loggers, hubClient, connected, wg, wgWaiters,
                 waitSaw, sinkVars, exit, pc, fr, ret, lockOrder, ghostCloseVars,
                 connectLog, fallback, setFlagsLog, opsLimit, remoteConnected, wgSema>>

\* internal.Info, lines 479-492: start a delivery and Wait, when connected
InternalInfo(c) ==
  /\ Running /\ pc[c] = "idle" /\ nops < opsLimit
  /\ nops' = nops + 1
  /\ IF WriteStarts(connected)
     THEN /\ wg' = wg + 1
          /\ IF AddMisuse(wg, wgWaiters)
             THEN /\ pc' = [pc EXCEPT ![c] = "add_panicked"]
                  /\ UNCHANGED deliveries
             ELSE /\ deliveries' = deliveries \cup
                        {Delivery(nops + 1, "internal", "info", AnyText)}
                  /\ pc' = [pc EXCEPT ![c] = "info_wait"]
     ELSE UNCHANGED <<wg, deliveries, pc>>
  /\ UNCHANGED <<logLock, defaultLogger, loggers, hubClient, connected, wgWaiters, waitSaw,
                 sinkVars, exit, fr, ret, lockOrder, ghostCloseVars, remoteWrites,
                 connectLog, fallback, setFlagsLog, opsLimit, remoteConnected, remoteWg,
                 wgSema>>

\* sentry.CaptureMessage in the goroutine: it returns an event id, or nil
\* when the event could not be delivered; neither stops the goroutine
CaptureOutcomes == {"ok", "fail"}

\* lines 468-471 (part_000 30-37)
DeliverCapture(d, outcome) ==
  /\ Running /\ d \in deliveries /\ d.stage = "spawned"
  /\ deliveries' = (deliveries \ {d}) \cup
                   {[d EXCEPT !.stage = "captured", !.outcome = outcome]}
  /\ sentryEvents' = IF outcome = "ok"
                     THEN Append(sentryEvents,
                                 [level |-> d.level, id |-> d.id, by |-> "goroutine",
                                  holder |-> logLock, text |-> d.text])
                     ELSE sentryEvents
  /\ UNCHANGED <<logLock, defaultLogger, loggers, hubClient, connected, wg, wgWaiters,
                 waitSaw, out, flushes, fileClosed, exit, pc, fr, ret, nops, lockOrder,
                 ghostCloseVars, remoteWrites, connectLog, fallback, setFlagsLog, opsLimit,
                 remoteConnected, remoteWg, wgSema>>

\* line 473 (part_000 38): wg.Done() is the next statement whatever was captured
WgDone(counter, outcome) == counter - 1

\* sync.WaitGroup.Add, reached from wg.Done(): a counter below zero is a
\* panic ("sync: negative WaitGroup counter")
WgNegative(counter) == counter < 0

\* line 472: sentry.Flush(flashTimeout) in the goroutine of package internal;
\* the goroutine of part_000 has no such statement
DeliverFlush(d) ==
  /\ Running /\ d \in deliveries /\ d.stage = "captured" /\ d.flush
  /\ flushes' = flushes + 1
  /\ deliveries' = (deliveries \ {d}) \cup {[d EXCEPT !.stage = "flushed"]}
  /\ UNCHANGED <<logLock, defaultLogger, loggers, hubClient, connected, wg, wgWaiters,
                 waitSaw, out, sentryEvents, fileClosed, exit, pc, fr, ret, nops,
                 lockOrder, ghostCloseVars, remoteWrites, connectLog, fallback,
                 setFlagsLog, opsLimit, remoteConnected, remoteWg, wgSema>>

\* line 473 (part_000 38): wg.Done(), the decrement of the counter of the
\* goroutine's package.  A counter brought below zero panics in the goroutine,
\* which ends the process with status 2.  Otherwise Done returns unless it has
\* brought the counter to zero with waiters registered, which it then has to
\* release; package remote has no Wait and so no waiters
DeliverDone(d) ==
  /\ Running /\ d \in deliveries
  /\ d.stage = IF d.flush THEN "flushed" ELSE "captured"
  /\ LET counter == IF d.pkg = "internal" THEN wg ELSE remoteWg
         waiters == IF d.pkg = "internal" THEN wgWaiters ELSE 0
         after == WgDone(counter, d.outcome)
     IN /\ IF d.pkg = "internal"
           THEN wg' = after /\ UNCHANGED remoteWg
           ELSE remoteWg' = after /\ UNCHANGED wg
        /\ IF WgNegative(after)
           THEN /\ exit' = <<2>>
                /\ deliveries' = (deliveries \ {d}) \cup {[d EXCEPT !.stage = "panicked"]}
           ELSE /\ deliveries' =
                     IF after > 0 \/ waiters = 0
                     THEN deliveries \ {d}
                     ELSE (deliveries \ {d}) \cup
                          {[d EXCEPT !.stage = "releasing", !.seen = <<after, waiters>>]}
                /\ UNCHANGED exit
  /\ UNCHANGED <<logLock, defaultLogger, loggers, hubClient, connected, wgWaiters, waitSaw,
                 sinkVars, pc, fr, ret, nops, lockOrder, ghostCloseVars, remoteWrites,
                 connectLog, fallback, setFlagsLog, opsLimit, remoteConnected, wgSema>>

\* line 473, inside wg.Done(): the state is read again; when an Add or a Wait
\* has changed it in between, Done panics in the goroutine, which ends the
\* process with status 2
DeliverCheck(d) ==
  /\ Running /\ d \in deliveries /\ d.stage = "releasing"
  /\ IF <<wg, wgWaiters>> = d.seen
     THEN /\ deliveries' = (deliveries \ {d}) \cup {[d EXCEPT !.stage = "storing"]}
          /\ UNCHANGED exit
     ELSE /\ exit' = <<2>>
          /\ UNCHANGED deliveries
  /\ UNCHANGED <<logLock, defaultLogger, loggers, hubClient, connected, wg, wgWaiters,
                 waitSaw, sinkVars, pc, fr, ret, nops, lockOrder, ghostCloseVars,
                 remoteWrites, connectLog, fallback, setFlagsLog, opsLimit,
                 remoteConnected, remoteWg, wgSema>>

\* line 473, inside wg.Done(): the state is set to zero, which forgets the
\* Adds and the waiters that came after the state was read again
DeliverRelease(d) ==
  /\ Running /\ d \in deliveries /\ d.stage = "storing"
  /\ wg' = 0
  /\ wgWaiters' = 0
  /\ deliveries' = (deliveries \ {d}) \cup {[d EXCEPT !.stage = "signalling"]}
  /\ UNCHANGED <<logLock, defaultLogger, loggers, hubClient, connected, waitSaw, sinkVars,
                 exit, pc, fr, ret, nops, lockOrder, ghostCloseVars, remoteWrites,
                 connectLog, fallback, setFlagsLog, opsLimit, remoteConnected, remoteWg,
                 wgSema>>

\* line 473, inside wg.Done(): one release of the semaphore for each waiter
\* that was registered; a release is not handed to a waiter, whoever acquires
\* the semaphore first takes it
DeliverSignal(d) ==
  /\ Running /\ d \in deliveries /\ d.stage = "signalling"
  /\ wgSema' = wgSema + 1
  /\ deliveries' = IF d.seen[2] = 1
                   THEN deliveries \ {d}
                   ELSE (deliveries \ {d}) \cup {[d EXCEPT !.seen[2] = @ - 1]}
  /\ UNCHANGED <<logLock, defaultLogger, loggers, hubClient, connected, waitSaw, sinkVars,
                 exit, pc, fr, ret, nops, lockOrder, ghostCloseVars, remoteWrites,
                 connectLog, fallback, setFlagsLog, opsLimit, remoteConnected, remoteWg,
                 wg, wgWaiters>>

\* internal.Wait, lines 494-496, called by the host program
CallWait(c) ==
  /\ Running /\ pc[c] = "idle" /\ nops < opsLimit
  /\ nops' = nops + 1
  /\ pc' = [pc EXCEPT ![c] = "wait"]
  /\ UNCHANGED <<logLock, defaultLogger, loggers, hubClient, remoteVars, sinkVars, exit,
                 fr, ret, lockOrder, ghostCloseVars, remoteWrites, connectLog, fallback,
                 setFlagsLog, opsLimit, remoteConnected, remoteWg, wgSema>>

\* sync.WaitGroup.Wait returns at once when it finds the counter at zero
WgZero(counter) == counter = 0

\* line 495: wg.Wait() reads the counter: it returns, or it registers the
\* caller as a waiter and goes on to acquire the semaphore
WaitEnter(c) ==
  /\ Running /\ pc[c] \in {"wait", "info_wait"}
  /\ IF WgZero(wg)
     THEN /\ waitSaw' = waitSaw \cup {Cardinality(Unfinished)}
          /\ pc' = [pc EXCEPT ![c] = "idle"]
          /\ UNCHANGED wgWaiters
     ELSE /\ wgWaiters' = wgWaiters + 1
          /\ pc' = [pc EXCEPT ![c] = "wait_blocked"]
          /\ UNCHANGED waitSaw
  /\ UNCHANGED <<logLock, defaultLogger, loggers, hubClient, connected, wg, deliveries,
                 sinkVars, exit, fr, ret, nops, lockOrder, ghostCloseVars, remoteWrites,
                 connectLog, fallback, setFlagsLog, opsLimit, remoteConnected, remoteWg,
                 wgSema>>

\* line 495, inside wg.Wait(): the caller acquires the semaphore when it holds
\* a release, at once or after having parked, whichever waiter the release was
\* made for; without a release the caller stays parked
WaitAcquire(c) ==
  /\ Running /\ pc[c] = "wait_blocked"
  /\ wgSema > 0
  /\ wgSema' = wgSema - 1
  /\ pc' = [pc EXCEPT ![c] = "wait_woken"]
  /\ UNCHANGED <<logLock, defaultLogger, loggers, hubClient, remoteVars, sinkVars, exit,
                 fr, ret, nops, lockOrder, ghostCloseVars, remoteWrites, connectLog,
                 fallback, setFlagsLog, opsLimit, remoteConnected, remoteWg>>

\* line 495: a caller that has acquired the semaphore reads the state again:
\* it returns when that is zero, and panics when an Add or a Wait has changed
\* it since the release ("WaitGroup is reused before previous Wait has
\* returned")
WaitWoken(c) ==
  /\ Running /\ pc[c] = "wait_woken"
  /\ IF wg = 0 /\ wgWaiters = 0
     THEN /\ waitSaw' = waitSaw \cup {Cardinality(Unfinished)}
          /\ pc' = [pc EXCEPT ![c] = "idle"]
     ELSE /\ pc' = [pc EXCEPT ![c] = "wait_panicked"]
          /\ UNCHANGED waitSaw
  /\ UNCHANGED <<logLock, defaultLogger, loggers, hubClient, connected, wg, wgWaiters,
                 deliveries, sinkVars, exit, fr, ret, nops, lockOrder, ghostCloseVars,
                 remoteWrites, connectLog, fallback, setFlagsLog, opsLimit,
                 remoteConnected, remoteWg, wgSema>>

\* a panic of output, of wg.Add or of wg.Wait in the goroutine of a caller
Panicked == {"panicked", "add_panicked", "wait_panicked"}

\* the panic reaches a recover() in the caller, which goes on
PanicRecovered(c) ==
  /\ Running /\ pc[c] \in Panicked
  /\ pc' = [pc EXCEPT ![c] = "idle"]
  /\ fr' = [fr EXCEPT ![c] = Frame0]
  /\ UNCHANGED <<logLock, defaultLogger, loggers, hubClient, remoteVars, sinkVars, exit,
                 ret, nops, lockOrder, ghostCloseVars, remoteWrites, connectLog, fallback,
                 setFlagsLog, opsLimit, remoteConnected, remoteWg, wgSema>>

\* nothing recovers the panic: the runtime ends the process with status 2
PanicCrash(c) ==
  /\ Running /\ pc[c] \in Panicked
  /\ exit' = <<2>>
  /\ pc' = [pc EXCEPT ![c] = "exited"]
  /\ UNCHANGED <<logLock, defaultLogger, loggers, hubClient, remoteVars, sinkVars, fr, ret,
                 nops, lockOrder, ghostCloseVars, remoteWrites, connectLog, fallback,
                 setFlagsLog, opsLimit, remoteConnected, remoteWg, wgSema>>

(* ---- Rinfo and Rinfof ------------------------------------------------- *)
RinfoTexts == {"done"}

\* part_002 8-9: Rinfo(a) calls defaultLogger.output(sInfo, 0, a)
CallRinfo(c, a) ==
  /\ Running /\ pc[c] = "idle" /\ nops < opsLimit
  /\ fr' = [fr EXCEPT ![c] = OutputFrame(Receiver(TRUE, 0), TRUE, sInfo, a, <<a>>)]
  /\ pc' = [pc EXCEPT ![c] = "out_lock"]
  /\ nops' = nops + 1
  /\ UNCHANGED <<logLock, defaultLogger, loggers, hubClient, remoteVars, sinkVars, exit,
                 ret, lockOrder, ghostCloseVars, remoteWrites, connectLog, fallback,
                 setFlagsLog, opsLimit, remoteConnected, remoteWg, wgSema>>

\* part_002 16: after logging t, Rinfof calls internal.Info(a)
RinfofRemoteText(a, t) == FormatString(a)

\* part_002 13-15: t := fmt.Sprintf(a, b...); defaultLogger.output(sInfo, 0, t)
CallRinfof(c, a, b) ==
  /\ Running /\ pc[c] = "idle" /\ nops < opsLimit
  /\ LET t == Sprintf(a, b) IN
     fr' = [fr EXCEPT ![c] = OutputFrame(Receiver(TRUE, 0), TRUE, sInfo, t,
                                         <<RinfofRemoteText(a, t)>>)]
  /\ pc' = [pc EXCEPT ![c] = "out_lock"]
  /\ nops' = nops + 1
  /\ UNCHANGED <<logLock, defaultLogger, loggers, hubClient, remoteVars, sinkVars, exit,
                 ret, lockOrder, ghostCloseVars, remoteWrites, connectLog, fallback,
                 setFlagsLog, opsLimit, remoteConnected, remoteWg, wgSema>>

\* part_002 10, 16: internal.Info(text) once output has returned
RinfoInfo(c) ==
  /\ Running /\ pc[c] = "rinfo_info"
  /\ IF WriteStarts(connected)
     THEN /\ wg' = wg + 1
          /\ IF AddMisuse(wg, wgWaiters)
             THEN /\ pc' = [pc EXCEPT ![c] = "add_panicked"]
                  /\ UNCHANGED deliveries
             ELSE /\ deliveries' = deliveries \cup
                        {Delivery(fr[c].rec, "internal", "info", fr[c].remote[1])}
                  /\ pc' = [pc EXCEPT ![c] = "info_wait"]
     ELSE /\ pc' = [pc EXCEPT ![c] = "idle"]
          /\ UNCHANGED <<wg, deliveries>>
  /\ fr' = [fr EXCEPT ![c] = Frame0]
  /\ UNCHANGED <<logLock, defaultLogger, loggers, hubClient, connected, wgWaiters, waitSaw,
                 sinkVars, exit, ret, nops, lockOrder, ghostCloseVars, remoteWrites,
                 connectLog, fallback, setFlagsLog, opsLimit, remoteConnected, remoteWg,
                 wgSema>>

(* ---- the router's specification --------------------------------------- *)
Next ==
  \E c \in Callers :
    \/ \E verbose \in BOOLEAN, logFile \in LogFiles : CallInit(c, verbose, logFile)
    \/ InitLock(c)
    \/ InitSet(c)
    \/ \E t \in Targets, s \in Severities : CallOutput(c, t[1], t[2], s)
    \/ OutputLock(c)
    \/ OutputWrite(c)
    \/ OutputFlush(c)
    \/ OutputUnlock(c)
    \/ \E t \in Targets : CallClose(c, t[1], t[2])
    \/ CloseLock(c)
    \/ CloseEntry(c)
    \/ CloseUnlock(c)
    \/ FatalClose(c)
    \/ FatalExit(c)
    \/ \E flag \in FlagInputs : CallSetFlags(c, flag)
    \/ SetFlagsStep(c)
    \/ \E dsn \in Dsns : ConnectSentry(c, dsn)
    \/ ConnectSet(c)
    \/ \E dsn \in Dsns : PackageRemoteConnectSentry(c, dsn)
    \/ PackageRemoteConnectSet(c)
    \/ \E level \in RemoteLevels : RemoteWrite(c, level)
    \/ \E level \in RemoteLevels : PackageRemoteWrite(c, level)
    \/ InternalInfo(c)
    \/ \E a \in RinfoTexts : CallRinfo(c, a)
    \/ \E a \in Formats, b \in ArgLists : CallRinfof(c, a, b)
    \/ RinfoInfo(c)
    \/ CallWait(c)
    \/ WaitEnter(c)
    \/ WaitAcquire(c)
    \/ WaitWoken(c)
    \/ PanicRecovered(c)
    \/ PanicCrash(c)
    \/ \E d \in deliveries, o \in CaptureOutcomes : DeliverCapture(d, o)
    \/ \E d \in deliveries : DeliverFlush(d)
    \/ \E d \in deliveries : DeliverDone(d)
    \/ \E d \in deliveries : DeliverCheck(d)
    \/ \E d \in deliveries : DeliverRelease(d)
    \/ \E d \in deliveries : DeliverSignal(d)

Spec == Init /\ [][Next]_vars

(* ---- scheduling ------------------------------------------------------- *)
\* A call that has started goes on: a goroutine that can run does run, every
\* sink write and closer returns, and an unlocked mutex is handed to a
\* goroutine blocked in Lock.

\* the next step of a call of Init, of a log call, of Close or of Fatal
StepRouter(c) ==
  \/ InitLock(c) \/ InitSet(c)
  \/ OutputLock(c) \/ OutputWrite(c) \/ OutputFlush(c) \/ OutputUnlock(c)
  \/ CloseLock(c) \/ CloseEntry(c) \/ CloseUnlock(c)
  \/ FatalClose(c) \/ FatalExit(c)
  \/ ConnectSet(c)

\* Init, the log calls, Close and Fatal, with the remote backend bound or not
NextRouter ==
  \E c \in Callers :
    \/ \E verbose \in BOOLEAN, logFile \in LogFiles : CallInit(c, verbose, logFile)
    \/ \E t \in Targets, s \in Severities : CallOutput(c, t[1], t[2], s)
    \/ \E t \in Targets : CallClose(c, t[1], t[2])
    \/ \E dsn \in Dsns : ConnectSentry(c, dsn)
    \/ StepRouter(c)

FairRouter ==
  /\ Init /\ [][NextRouter]_vars
  /\ \A c \in Callers : WF_vars(StepRouter(c))

\* the next step of a call of ConnectSentry, Rinfo, Rinfof or Wait, and the
\* way a panic of wg.Add or wg.Wait takes
StepTracker(c) ==
  \/ OutputLock(c) \/ OutputWrite(c) \/ OutputUnlock(c)
  \/ RinfoInfo(c)
  \/ ConnectSet(c)
  \/ WaitEnter(c) \/ WaitAcquire(c) \/ WaitWoken(c)
  \/ PanicRecovered(c) \/ PanicCrash(c)

\* the next step of a delivery goroutine
Deliver ==
  \/ \E d \in deliveries, o \in CaptureOutcomes : DeliverCapture(d, o)
  \/ \E d \in deliveries : DeliverFlush(d)
  \/ \E d \in deliveries : DeliverDone(d)
  \/ \E d \in deliveries : DeliverCheck(d)
  \/ \E d \in deliveries : DeliverRelease(d)
  \/ \E d \in deliveries : DeliverSignal(d)

\* the remote deliveries and the calls that start them or wait for them
NextTracker ==
  \/ \E c \in Callers :
       \/ \E dsn \in Dsns : ConnectSentry(c, dsn)
       \/ \E level \in RemoteLevels : RemoteWrite(c, level)
       \/ InternalInfo(c)
       \/ \E a \in RinfoTexts : CallRinfo(c, a)
       \/ \E a \in Formats, b \in ArgLists : CallRinfof(c, a, b)
       \/ CallWait(c)
       \/ StepTracker(c)
  \/ Deliver

FairTracker ==
  /\ Init /\ [][NextTracker]_vars
  /\ \A c \in Callers : WF_vars(StepTracker(c))
  /\ WF_vars(Deliver)

\* the WaitGroups of package internal and package remote alone: the calls
\* that reach them and the delivery goroutines, for a host program that makes
\* MaxCounterOps calls
StepCounter(c) ==
  \/ ConnectSet(c)
  \/ PackageRemoteConnectSet(c)
  \/ WaitEnter(c) \/ WaitAcquire(c) \/ WaitWoken(c)
  \/ PanicRecovered(c) \/ PanicCrash(c)

NextCounter ==
  \/ \E c \in Callers :
       \/ \E dsn \in Dsns : ConnectSentry(c, dsn)
       \/ \E dsn \in Dsns : PackageRemoteConnectSentry(c, dsn)
       \/ \E level \in RemoteLevels : RemoteWrite(c, level)
       \/ \E level \in RemoteLevels : PackageRemoteWrite(c, level)
       \/ InternalInfo(c)
       \/ CallWait(c)
       \/ StepCounter(c)
  \/ Deliver

InitCounter == InitCalls(MaxCounterOps)

SpecCounter == InitCounter /\ [][NextCounter]_vars

(* ---- the router with calls of output from inside the package ---------- *)
NextInternal ==
  \/ Next
  \/ \E c \in Callers :
       \/ \E t \in Targets, s \in BadSeverities : CallOutputRaw(c, t[1], t[2], s)
       \/ OutputPanic(c)

SpecInternal == Init /\ [][NextInternal]_vars

(* ======================================================================= *)
(* Claims                                                                  *)
(* ======================================================================= *)
\* position of an element in a sequence without repetitions, 0 if absent
Pos(seq, x) == IF \E k \in 1..Len(seq) : seq[k] = x
               THEN CHOOSE k \in 1..Len(seq) : seq[k] = x
               ELSE 0

\* ids of the log records a local writer has received, in order
RecordIds(w) ==
  LET recs == SelectSeq(out[w], LAMBDA e : e.kind = "rec")
  IN [k \in 1..Len(recs) |-> recs[k].id]

InOutput(c) == pc[c] \in {"out_write", "out_flush", "out_unlock"}

\* C1: at most one caller is inside the fan-out write of output at any time,
\* the record being written is the one of the last caller to take the lock,
\* and every local writer holds its records once each, in the order in which
\* their callers took the lock.
C1_SerializedWrites ==
  /\ Cardinality({c \in Callers : InOutput(c)}) <= 1
  /\ \A c \in Callers :
       InOutput(c) => /\ logLock = c
                      /\ lockOrder # <<>>
                      /\ lockOrder[Len(lockOrder)] = fr[c].rec
  /\ \A w \in LocalWriters :
       LET ids == RecordIds(w) IN
       \A i, j \in 1..Len(ids) :
         i < j => /\ Pos(lockOrder, ids[i]) > 0
                  /\ Pos(lockOrder, ids[i]) < Pos(lockOrder, ids[j])

\* two callers compete: one has written its record and still holds the lock,
\* the other waits for it, and a writer holds two records that were called
\* in one order and took the lock in the other
C1_Witness ==
  \E c1, c2 \in Callers :
    /\ c1 # c2
    /\ pc[c1] = "out_unlock"
    /\ pc[c2] = "out_lock"
    /\ \E w \in LocalWriters :
         /\ Len(RecordIds(w)) >= 2
         /\ RecordIds(w)[1] > RecordIds(w)[2]

\* C5: the default logger is the fallback until an Init has done its
\* check-and-set, from then on it is the Logger of the first Init that did, and
\* the Loggers returned by Init calls are pairwise distinct.
C5_FirstInitWins ==
  /\ defaultLogger = IF ret = <<>> THEN 0 ELSE ret[1]
  /\ \A i, j \in 1..Len(ret) : i # j => ret[i] # ret[j]
  /\ \A i \in 1..Len(ret) : ret[i] \in 1..Len(loggers) /\ loggers[ret[i]].initialized

\* two Init calls have returned, and the one that built its Logger second was
\* the first to take the lock
C5_Witness ==
  /\ Len(ret) = 2
  /\ ret[1] = 2
  /\ defaultLogger = 2

\* C6: the counter of the WaitGroup is never negative and always equals the
\* number of deliveries that have started and not yet decremented it, whether
\* their capture succeeded or failed; so a Wait returns only when none is left.
C6_CounterExact ==
  /\ wg >= 0
  /\ wg = Cardinality(Unfinished)
  /\ remoteWg = Cardinality(UnfinishedOf("remote"))
  /\ waitSaw \subseteq {0}

\* C7: while no ConnectSentry has succeeded, remote writes have started no
\* delivery, captured nothing, left the counter at zero, made no caller wait
\* for a delivery or a flush, and all have returned 0, nil.
C7_DisconnectedNoOp ==
  (~connected /\ ~hubClient) =>
     /\ ~remoteConnected
     /\ wg = 0
     /\ remoteWg = 0
     /\ deliveries = {}
     /\ sentryEvents = <<>>
     /\ \A c \in Callers :
          pc[c] \notin {"info_wait", "wait_blocked", "wait_woken", "out_flush"} \cup Panicked
     /\ \A r \in remoteWrites : r.r = <<0, "nil">> /\ ~r.client

\* never connected, and both a sink of a Logger and a sink of package internal
\* have been written to
C7_Witness ==
  /\ ~connected /\ ~hubClient
  /\ \E r \in remoteWrites : r.pkg = "logger"
  /\ \E r \in remoteWrites : r.pkg = "internal"

\* C9: when the loop of Close over the registry of an initialized Logger is
\* over, every closer has been tried once, in registry order, one diagnostic
\* has been printed per failure, and Close is about to return; no failure
\* takes Close out of the loop.
C9_CloseTriesAll ==
  /\ \A c \in Callers : pc[c] # "close_abort"
  /\ \A c \in Callers :
       (pc[c] = "close_unlock" /\ LoggerAt(fr[c].l).initialized) =>
          LET cs == LoggerAt(fr[c].l).closers
              at == fr[c].attempts
          IN /\ Len(at) = Len(cs)
             /\ \A k \in 1..Len(cs) : at[k][1] = cs[k]
             /\ fr[c].diags = Cardinality({k \in 1..Len(at) : at[k][2] # "nil"})
             /\ Len(SelectSeq(out["stderr"], LAMBDA e : e.kind = "diag")) >= fr[c].diags

\* a Close whose closer failed has printed the diagnostic and finished its loop
C9_Witness ==
  \E c \in Callers :
    /\ pc[c] = "close_unlock"
    /\ fr[c].diags >= 1
    /\ Len(fr[c].attempts) = 2
    /\ \E k \in 1..Len(out["stderr"]) : out["stderr"][k].kind = "diag"

\* C2: a second Close on an initialized Logger has no effect: over all the
\* Close calls on a Logger each registered closer is invoked at most once, and
\* a Close that follows a finished Close on the same Logger never enters the
\* loop over the registry.  (The code runs the loop again on every call.)
C2_SecondCloseNoEffect ==
  /\ \A l \in 1..Len(loggers) : closeInvoked[l] <= Len(loggers[l].closers)
  /\ \A c \in Callers :
       pc[c] = "close_loop" => closeDone[fr[c].l] = 0

\* C3: a write method called on an initialized Logger after a Close on it has
\* returned panics: the call never reaches the fan-out write and none of its
\* record is in any writer.  (The code keeps no closed state and writes.)
C3_NoWriteAfterClose ==
  \A c \in Callers :
    fr[c].afterClose =>
       /\ pc[c] \notin {"out_write", "out_flush", "out_unlock", "fatal_close"}
       /\ \A w \in LocalWriters : Pos(RecordIds(w), fr[c].rec) = 0

\* C4: when a Fatal entry point has ended the process, it has written its
\* record through the fatal log of a Logger, then run Close to its end on that
\* same Logger, then exited with status 1.  (The package-level functions read
\* defaultLogger once for output and again for Close.)
C4_FatalSequence ==
  \A c \in Callers :
    (pc[c] = "exited" /\ fr[c].fatal) =>
       /\ fr[c].s = sFatal
       /\ Pos(lockOrder, fr[c].rec) > 0
       /\ fr[c].l = fr[c].wrote
       /\ closeDone[fr[c].l] >= 1
       /\ exit = <<1>>

\* C8: no message is captured by a remote sink of a Logger, and no flush of a
\* fatal message runs, while the caller doing it holds logLock.  (The remote
\* sink is a writer of the fan-out, which output writes under the lock.)
C8_NoRemoteUnderLock ==
  /\ \A k \in 1..Len(sentryEvents) :
       sentryEvents[k].by = "sink" => sentryEvents[k].holder = 0
  /\ \A c \in Callers : pc[c] = "out_flush" => logLock # c

\* C10: when output has written a record of severity s on a Logger built by
\* Init(verbose, logFile), the record is in logFile exactly if logFile is not
\* nil, and in the console stream of s exactly if verbose is true.  (A logFile
\* that has been closed fails the write and ends the fan-out.)
C10_VerboseRouting ==
  \A c \in Callers :
    (pc[c] = "out_unlock" /\ LoggerAt(fr[c].l).initialized) =>
       LET a == LoggerAt(fr[c].l).args IN
       /\ \A f \in LogFiles \ {NilWriter} :
            (Pos(RecordIds(f), fr[c].rec) > 0) <=> (a.logFile = f)
       /\ \A con \in {"stdout", "stderr"} :
            (Pos(RecordIds(con), fr[c].rec) > 0) <=> (a.verbose /\ con = ConsoleOf(fr[c].s))

\* the records with a given id a local writer holds
RecordsOf(w, id) == SelectSeq(out[w], LAMBDA e : e.kind = "rec" /\ e.id = id)

\* C11: the default logger is always a Logger with a writer behind each of its
\* four logs; a call through the fallback logger does not panic and, once
\* written, has put one record on standard error, prefixed with the warning
\* of initText and the tag of its severity, and nothing elsewhere; Close on
\* the fallback logger invokes no closer.
C11_FallbackValid ==
  /\ defaultLogger \in 0..Len(loggers)
  /\ \A s \in Severities : Len(LogOf(defaultLogger, s).out) >= 1
  /\ \A c \in Callers :
       (fr[c].l = 0 /\ fr[c].s \in Severities) =>
          /\ pc[c] \notin {"out_panic", "panicked"}
          /\ pc[c] = "out_unlock" =>
               /\ Len(RecordsOf("stderr", fr[c].rec)) = 1
               /\ RecordsOf("stderr", fr[c].rec)[1].prefix = initText \o TagOf(fr[c].s)
               /\ \A w \in LocalWriters \ {"stderr"} : RecordsOf(w, fr[c].rec) = <<>>
  /\ closeInvoked[0] = 0
  /\ \A c \in Callers : pc[c] = "close_loop" => fr[c].l # 0

\* before any Init, a Close on the fallback logger has returned and a call
\* through it has written its record
C11_Witness ==
  /\ loggers = <<>>
  /\ closeDone[0] >= 1
  /\ \E c \in Callers : pc[c] = "out_unlock" /\ fr[c].l = 0 /\ fr[c].s = sInfo

\* C13: a ConnectSentry call whose configuration the backend rejects returns
\* the error and leaves connected as it was, any other call returns nil and
\* leaves it true; connected is true exactly if some call has succeeded, so
\* it goes from false to true at most once and never back.
C13_ConnectedOnce ==
  /\ \A r \in connectLog :
       /\ r.err = SentryInit(r.dsn)
       /\ r.err # "nil" => r.now = r.was
       /\ r.err = "nil" => r.now
  /\ connected <=> (\E r \in connectLog : r.pkg = "internal" /\ r.err = "nil")
  /\ remoteConnected <=> (\E r \in connectLog : r.pkg = "remote" /\ r.err = "nil")

\* a call succeeded, and later a rejected call found the flag set and left it
C13_Witness ==
  /\ connected
  /\ \E r \in connectLog : r.err = "nil" /\ ~r.was
  /\ \E r \in connectLog : r.err # "nil" /\ r.was /\ r.now

\* the closer registry Init builds for a log file, lines 115-120
RegistryFor(logFile) ==
  IF logFile # NilWriter /\ IsCloser(logFile)
    THEN <<"sentryFatalLog", logFile>>
    ELSE <<"sentryFatalLog">>

\* C16: the closer registry of a Logger built by Init is the Fatal remote sink
\* followed by the log file if and only if that is non-nil and a closer; the
\* registry and the initialized flag are the same in every later state, and no
\* step changes them or the arguments the Logger was built from.
C16_RegistryFixed ==
  /\ [](\A l \in 1..Len(loggers) :
          /\ loggers[l].closers = RegistryFor(loggers[l].args.logFile)
          /\ loggers[l].initialized)
  /\ [][\A l \in 1..Len(loggers) :
          /\ loggers'[l].closers = loggers[l].closers
          /\ loggers'[l].initialized = loggers[l].initialized
          /\ loggers'[l].args = loggers[l].args]_vars

\* a Logger on a file has been closed and still has both closers, next to a
\* Logger on a writer that is no closer
C16_Witness ==
  /\ \E l \in 1..Len(loggers) :
       /\ loggers[l].args.logFile = "file"
       /\ closeDone[l] >= 1
       /\ loggers[l].closers = <<"sentryFatalLog", "file">>
       /\ loggers[l].initialized
  /\ \E l \in 1..Len(loggers) :
       /\ loggers[l].args.logFile = "buf"
       /\ loggers[l].closers = <<"sentryFatalLog">>

\* the local writers of a fan-out list
LocalsOf(o) == {o[k] : k \in {j \in 1..Len(o) : o[j] \in LocalWriters}}

\* C18: in the fan-out of every severity of a Logger built by Init the remote
\* sink is the last writer, after the log file and the console in that order;
\* when the fan-out of a record is at the remote sink or past it, every local
\* writer of that fan-out has received the record, exactly once.
C18_RemoteLast ==
  /\ \A l \in 1..Len(loggers) : \A s \in Severities :
       LET o == LogOf(l, s).out
           a == loggers[l].args
       IN /\ o[Len(o)] \in SentryWriters
          /\ \A k \in 1..(Len(o) - 1) : o[k] \in LocalWriters
          /\ a.logFile # NilWriter => o[1] = a.logFile
          /\ a.verbose => o[Len(o) - 1] = ConsoleOf(s)
  /\ \A c \in Callers :
       (pc[c] \in {"out_write", "out_flush", "out_unlock"} /\ fr[c].l # 0) =>
          LET o == LogOf(fr[c].l, fr[c].s).out IN
          ((pc[c] = "out_write" /\ fr[c].i = Len(o)) \/ fr[c].i > Len(o)) =>
             \A w \in LocalsOf(o) : Len(RecordsOf(w, fr[c].rec)) = 1
  /\ \A k \in 1..Len(sentryEvents) :
       sentryEvents[k].by = "sink" =>
          \A c \in Callers :
             (pc[c] \in {"out_write", "out_flush", "out_unlock"}
                /\ fr[c].rec = sentryEvents[k].id) =>
                \A w \in LocalsOf(LogOf(fr[c].l, fr[c].s).out) :
                   Len(RecordsOf(w, fr[c].rec)) = 1

\* a record of a verbose Logger on a file has been captured by the remote sink
\* after the file and the console received it
C18_Witness ==
  \E c \in Callers :
    /\ pc[c] = "out_unlock" /\ fr[c].l # 0
    /\ loggers[fr[c].l].args = [verbose |-> TRUE, logFile |-> "file"]
    /\ fr[c].i > Len(LogOf(fr[c].l, fr[c].s).out)
    /\ \E k \in 1..Len(sentryEvents) :
         sentryEvents[k].by = "sink" /\ sentryEvents[k].id = fr[c].rec
    /\ Len(RecordsOf("file", fr[c].rec)) = 1
    /\ Len(RecordsOf(ConsoleOf(fr[c].s), fr[c].rec)) = 1

\* the remote sink of package logger has captured the record
SinkCaptured(id, level) ==
  \E k \in 1..Len(sentryEvents) :
    /\ sentryEvents[k].by = "sink"
    /\ sentryEvents[k].id = id
    /\ sentryEvents[k].level = level

\* C15: a write of the remote sink flushes only at Fatal level with a client
\* bound: the flush comes after the capture and while the caller is still in
\* the write, and when the write has returned it has flushed once, with the
\* three second timeout; a write at Info, Warning or Error level, or without a
\* client, has returned without a flush.
C15_FatalFlushes ==
  \A c \in Callers :
    /\ pc[c] = "out_flush" =>
         /\ fr[c].s = sFatal
         /\ hubClient
         /\ logLock = c
         /\ SinkCaptured(fr[c].rec, "fatal")
         /\ fr[c].flushed = <<>>
    /\ pc[c] = "out_unlock" =>
         fr[c].flushed = IF fr[c].s = sFatal /\ SinkCaptured(fr[c].rec, "fatal")
                         THEN <<flashTimeout>>
                         ELSE <<>>

\* a Fatal record has been captured and flushed and its write has returned
C15_Witness ==
  \E c \in Callers :
    /\ pc[c] = "out_unlock"
    /\ fr[c].s = sFatal
    /\ SinkCaptured(fr[c].rec, "fatal")
    /\ fr[c].flushed = <<flashTimeout>>
    /\ flushes = 1

\* C14: once a SetFlags(f) call has returned, having found one default logger
\* and overlapped no other SetFlags call, the logs of all four severities of
\* that logger carry the flags f for as long as it is the default logger and
\* no other SetFlags call has started.
C14_SetFlagsAllSeverities ==
  (/\ setFlagsLog # <<>>
   /\ setFlagsLog[1].clean
   /\ setFlagsLog[1].l = defaultLogger
   /\ \A c \in Callers : pc[c] # "setflags") =>
     \A s \in Severities : LogOf(defaultLogger, s).flag = setFlagsLog[1].f

\* C19: the text of a remote Info delivery started by Rinfo or Rinfof, and of
\* the event captured from it, is the text of the record the same call wrote
\* to the local Info sink.
C19_SameText ==
  /\ \A d \in deliveries : \A w \in LocalWriters :
       \A k \in 1..Len(RecordsOf(w, d.id)) : RecordsOf(w, d.id)[k].text = d.text
  /\ \A j \in 1..Len(sentryEvents) :
       sentryEvents[j].by = "goroutine" =>
          \A w \in LocalWriters :
             \A k \in 1..Len(RecordsOf(w, sentryEvents[j].id)) :
                RecordsOf(w, sentryEvents[j].id)[k].text = sentryEvents[j].text

\* the sentry level of the remote sink bound to a severity
LevelOf(s) ==
  CASE s = sInfo -> "info"
    [] s = sWarning -> "warning"
    [] s = sError -> "error"
    [] s = sFatal -> "fatal"

\* nothing of the call with this record id has reached a sink
Unwritten(id) ==
  /\ \A w \in LocalWriters : RecordsOf(w, id) = <<>>
  /\ \A k \in 1..Len(sentryEvents) : sentryEvents[k].id # id

\* C17: a call of output with a severity that is none of the four holds the
\* lock when it panics, has written to no sink, and no longer holds the lock
\* once the panic has left output; only a call from inside the package
\* carries such a severity; and what a call with one of the four severities
\* has written went to writers of the log of that severity only, with the tag
\* of that severity, and to the remote sink at the level of that severity.
C17_SeverityDispatch ==
  \A c \in Callers :
    /\ pc[c] = "out_panic" =>
         /\ fr[c].s \notin Severities
         /\ logLock = c
         /\ Unwritten(fr[c].rec)
    /\ pc[c] = "panicked" =>
         /\ fr[c].s \notin Severities
         /\ logLock # c
         /\ Unwritten(fr[c].rec)
    /\ (pc[c] \in {"out_lock", "out_write", "out_flush", "out_unlock"} /\ ~fr[c].raw) =>
         fr[c].s \in Severities
    /\ pc[c] \in {"out_write", "out_flush", "out_unlock"} =>
         /\ fr[c].s \in Severities
         /\ \A w \in LocalWriters :
              \A k \in 1..Len(RecordsOf(w, fr[c].rec)) :
                 /\ w \in LocalsOf(LogOf(fr[c].l, fr[c].s).out)
                 /\ RecordsOf(w, fr[c].rec)[k].prefix =
                      (IF fr[c].l = 0 THEN initText ELSE "") \o TagOf(fr[c].s)
                 /\ fr[c].l # 0 =>
                      w \in {loggers[fr[c].l].args.logFile, ConsoleOf(fr[c].s)}
         /\ \A k \in 1..Len(sentryEvents) :
              (sentryEvents[k].id = fr[c].rec /\ sentryEvents[k].by = "sink") =>
                 sentryEvents[k].level = LevelOf(fr[c].s)

\* a call with an unknown severity has panicked out of output, and a later
\* call has taken the lock after it and written its record
C17_Witness ==
  \E c1, c2 \in Callers :
    /\ pc[c1] = "panicked"
    /\ pc[c2] = "out_unlock"
    /\ Pos(lockOrder, fr[c1].rec) > 0
    /\ Pos(lockOrder, fr[c1].rec) < Pos(lockOrder, fr[c2].rec)
    /\ \E w \in LocalWriters : RecordsOf(w, fr[c2].rec) # <<>>

\* positions of a caller inside wg.Wait()
Waiting == {"wait", "info_wait", "wait_blocked", "wait_woken"}

\* C12: a Wait returns only when the counter is zero and no delivery is left
\* that has not decremented it, a Wait does not end in a panic, and a caller
\* inside Wait, by itself or inside internal.Info, returns from it once the
\* deliveries finish; so an internal.Info that started a delivery returns
\* only after that delivery and all others in flight have finished.
C12_WaitForDeliveries ==
  /\ [](waitSaw \subseteq {0})
  /\ [][\A c \in Callers :
          (pc[c] \in Waiting /\ pc'[c] = "idle") => (wg = 0 /\ Unfinished = {})]_vars
  /\ [](\A c \in Callers : pc[c] # "wait_panicked")
  /\ \A c \in Callers : (pc[c] \in Waiting) ~> (pc[c] = "idle")

\* positions of a call at which it holds the lock
Holding ==
  {"init_set", "out_write", "out_flush", "out_unlock", "out_panic", "close_loop",
   "close_unlock"}

\* positions of a call at which it is blocked in logLock.Lock()
Locking == {"init_lock", "out_lock", "close_lock"}

\* C20: a caller holds the lock only inside Init, output or Close, so never
\* while it asks for the lock and not between the output and the Close of a
\* Fatal; a caller that asks for the lock gets it, and every Fatal call that
\* has started ends in the exit of the process.
C20_NoSelfDeadlock ==
  /\ [](\A c \in Callers : logLock = c => pc[c] \in Holding)
  /\ \A c \in Callers : (pc[c] \in Locking) ~> (pc[c] \in Holding \/ ~Running)
  /\ \A c \in Callers : (fr[c].fatal /\ pc[c] # "idle") ~> ~Running

\* a Fatal call has released the lock after its output, taken it again in
\* Close and reached os.Exit, while another caller was waiting for the lock
C20_Witness ==
  \E c1, c2 \in Callers :
    /\ c1 # c2
    /\ pc[c1] = "exited" /\ fr[c1].fatal
    /\ closeDone[fr[c1].l] >= 1
    /\ pc[c2] \in Locking
    /\ exit = <<1>>

====
